---- MODULE Spec2Model ----
(***************************************************************************)
(* A model of the dgit command slice: cmd.Log / walkParents, git.Checkout  *)
(* / git.CheckoutCommit, git.Diff and cmd.Diff, together with the engine   *)
(* operations they call (read-tree, diff-index, diff-files, update-ref).   *)
(***************************************************************************)
EXTENDS Integers, Sequences, FiniteSets, TLC

(***************************************************************************)
(* Bounds of the model.                                                    *)
(***************************************************************************)
NumCommits == 2

Commits == 1..NumCommits

\* A commit stores zero (root), one (ordinary) or two (merge) parents, in order.
\* Nothing constrains where a stored parent points: it may point at the commit
\* itself or at a descendant (an erroneous backward pointer), or repeat.
ParentLists ==
    {<<>>} \cup {<<a>> : a \in Commits} \cup {<<a, b>> : a \in Commits, b \in Commits}

\* Number of distinct blob contents the object store holds.
NumBlobs == 1

Absent == 0

Blobs == 1..NumBlobs

\* Content not stored in any tree: a local edit of a working-tree file.
LocalEdit == NumBlobs + 1

Paths == {"f1", "f2"}

Branches == {"master", "topic"}

RepoCommits == {"c1", "c2"}

\* A tree or an index maps every path to a blob, or to Absent.
Trees == [Paths -> {Absent} \cup Blobs]

WorkTrees == [Paths -> {Absent, LocalEdit} \cup Blobs]

VARIABLES
    parents,    \* object store: commit -> its stored parent list
    visited,    \* cmd: var visited map[git.CommitID]bool
    stack,      \* call stack of walkParents: frames [cmt, pc, i]
    out,        \* commits printed on stdout by the current Log invocation
    logState,   \* "idle" | "running" | "nil" | "err" | "panic"
    cmt,        \* Log: the commit the walk of the last invocation started at
    printedBefore, \* Log: whether the invocation before it had printed cmt
    tree,       \* object store: commit -> its tree
    refs,       \* reference store: branch -> commit
    HEAD,       \* [kind |-> "sym", ref |-> branch] or [kind |-> "sha", sha |-> commit]
    index,      \* the staging index: path -> blob, or Absent
    workdir,    \* the working tree: path -> content, or Absent
    diffArgs,   \* cmd.Diff: the flags and paths of the last invocation
    diffOut,    \* cmd.Diff: the diffs handed to printDiffs and printed
    diffRaised, \* cmd.Diff: the steps of the last invocation that raised an error
    diffState,  \* "idle" | "nil" | "err" | "panic"
    pc,         \* checkout: where each process stands
    opts,       \* checkout: CheckoutOptions and arguments of each process
    head,       \* CheckoutCommit: the commit of the HEAD read at line 256
    cid,        \* CheckoutCommit: the commit id of the target (line 262)
    ret,        \* checkout: what the command returned, "none" while it runs
    raised,     \* checkout: the steps of the command that raised an error
    hunks,      \* Checkout -p: the hunk list (one hunk per changed path)
    reply,      \* Checkout -p: the collaborator's answer [kind, hunks]
    tempFile,   \* Checkout -p: the patch file [state, hunks]; state is
                \* "none" | "exists" | "removed"
    applied,    \* Checkout -p: whether Apply was invoked
    lock,       \* reference store: holder of HEAD.lock, or "free"
    HEAD0,      \* HEAD when the commands started
    index0,     \* the index when the commands started
    workdir0    \* the working tree when the commands started

logVars == <<parents, visited, stack, out, logState, cmt, printedBefore>>

repoVars == <<tree, refs, HEAD, index, workdir>>

diffVars == <<diffArgs, diffOut, diffRaised, diffState>>

coVars == <<pc, opts, head, cid, ret, raised, hunks, reply, tempFile, applied, lock>>

startVars == <<HEAD0, index0, workdir0>>

vars == <<logVars, repoVars, diffVars, coVars, startVars>>

Procs == {"p1", "p2"}

NoOpts ==
    [thing |-> "", Force |-> FALSE, Detach |-> FALSE, Patch |-> FALSE, files |-> {}]

\* The checkout processes of procs, each about to run its command.
CoStart(procs) ==
    /\ pc = [p \in procs |-> "idle"]
    /\ opts = [p \in procs |-> NoOpts]
    /\ head = [p \in procs |-> "none"]
    /\ cid = [p \in procs |-> "none"]
    /\ ret = [p \in procs |-> "none"]
    /\ raised = [p \in procs |-> {}]
    /\ hunks = [p \in procs |-> {}]
    /\ reply = [p \in procs |-> [kind |-> "none", hunks |-> {}]]
    /\ tempFile = [p \in procs |-> [state |-> "none", hunks |-> {}]]
    /\ applied = [p \in procs |-> FALSE]
    /\ lock = "free"

\* No checkout process exists.
CoIdle == CoStart({})

\* The checkout processes that exist.
Running == DOMAIN pc

StartIdle ==
    /\ HEAD0 = HEAD
    /\ index0 = index
    /\ workdir0 = workdir

\* No Log invocation was made yet.
LogStart ==
    /\ visited = {}
    /\ stack = <<>>
    /\ out = <<>>
    /\ logState = "idle"
    /\ cmt = 0
    /\ printedBefore = FALSE

LogIdle ==
    /\ parents = [c \in Commits |-> <<>>]
    /\ LogStart

NoArgs == [staged |-> FALSE, cached |-> FALSE, files |-> {}]

DiffIdle ==
    /\ diffArgs = NoArgs
    /\ diffOut = {}
    /\ diffRaised = {}
    /\ diffState = "idle"

RepoIdle ==
    /\ tree = [c \in RepoCommits |-> [p \in Paths |-> Absent]]
    /\ refs = [b \in Branches |-> "c1"]
    /\ HEAD = [kind |-> "sym", ref |-> "master"]
    /\ index = [p \in Paths |-> Absent]
    /\ workdir = [p \in Paths |-> Absent]

(***************************************************************************)
(* cmd.Log and cmd.walkParents                                             *)
(***************************************************************************)
Top == stack[Len(stack)]

Pop == SubSeq(stack, 1, Len(stack) - 1)

Frame(c, at, i) == [cmt |-> c, pc |-> at, i |-> i]

NeverVisited(c) == FALSE

\* visited[cmt]: the map holds only true values, so a key is present iff true.
IsVisited(c) == c \in visited

\* visited[cmt] = true
MarkVisited(c) == visited \cup {c}

KeptVisited == visited

\* visited = make(map[git.CommitID]bool)
FreshVisited == {}

\* Log: resolve the revision (HEAD or the argument) to a commit, reset the
\* global visited map, and call walkParents on it.
Log(start, resolveErr) ==
    /\ logState # "running"
    /\ IF resolveErr
         THEN /\ logState' = "err"
              /\ UNCHANGED <<visited, stack, out, cmt, printedBefore>>
         ELSE /\ visited' = FreshVisited
              /\ out' = <<>>
              /\ printedBefore' = (\E i \in 1..Len(out) : out[i] = start)
              /\ cmt' = start
              /\ stack' = <<Frame(start, "enter", 1)>>
              /\ logState' = "running"
    /\ UNCHANGED <<parents, repoVars, diffVars, coVars, startVars>>

\* A return of the top frame with a nil error: the caller resumes its loop,
\* or Log returns nil when the frame was the outermost one.
ReturnNil ==
    /\ stack' = Pop
    /\ logState' = IF Len(stack) = 1 THEN "nil" ELSE "running"

\* A return of the top frame with an error: every caller returns it at once
\* (walkParents line 62-63, Log line 115).
ReturnErr ==
    /\ stack' = <<>>
    /\ logState' = "err"

\* walkParents up to the parent loop: the visited test, the mark, printCommit
\* and the parent lookup.  printCommit panics when the author cannot be read,
\* before it prints anything, and when the date cannot be read, after it
\* printed the commit line.
WalkEnter(metaErr, parentsErr) ==
    /\ logState = "running"
    /\ Top.pc = "enter"
    /\ IF IsVisited(Top.cmt)
         THEN /\ ReturnNil
              /\ UNCHANGED <<visited, out>>
         ELSE /\ visited' = MarkVisited(Top.cmt)
              /\ IF metaErr # "none"
                   THEN /\ stack' = <<>>
                        /\ logState' = "panic"
                        /\ out' = IF metaErr = "GetDate"
                                    THEN Append(out, Top.cmt) ELSE out
                   ELSE /\ out' = Append(out, Top.cmt)
                        /\ IF parentsErr
                             THEN ReturnErr
                             ELSE /\ stack' = Append(Pop, Frame(Top.cmt, "loop", 1))
                                  /\ logState' = "running"
    /\ UNCHANGED <<parents, cmt, printedBefore, repoVars, diffVars, coVars, startVars>>

\* One iteration of "for _, p := range parents": skip a visited parent,
\* recurse into an unvisited one; return nil after the last parent.
WalkLoop ==
    /\ logState = "running"
    /\ Top.pc = "loop"
    /\ LET ps == parents[Top.cmt]
       IN IF Top.i > Len(ps)
            THEN ReturnNil
            ELSE LET p == ps[Top.i]
                     next == Append(Pop, Frame(Top.cmt, "loop", Top.i + 1))
                 IN /\ stack' = IF IsVisited(p)
                                  THEN next
                                  ELSE Append(next, Frame(p, "enter", 1))
                    /\ logState' = "running"
    /\ UNCHANGED <<parents, visited, out, cmt, printedBefore, repoVars, diffVars, coVars, startVars>>

LogInit ==
    /\ parents \in [Commits -> ParentLists]
    /\ LogStart
    /\ RepoIdle
    /\ DiffIdle
    /\ CoIdle
    /\ StartIdle

LogCall == \E start \in DOMAIN parents, resolveErr \in BOOLEAN : Log(start, resolveErr)

\* The read of a commit's metadata in printCommit that fails, if any.
MetaFaults == {"none", "GetAuthor", "GetDate"}

WalkEnterStep ==
    \E metaErr \in MetaFaults, parentsErr \in BOOLEAN : WalkEnter(metaErr, parentsErr)

WalkStep == WalkEnterStep \/ WalkLoop

LogNext == LogCall \/ WalkEnterStep \/ WalkLoop

\* The walk is sequential code: while a Log invocation is running its next
\* statement is executed.
SpecLog == LogInit /\ [][LogNext]_vars /\ WF_vars(WalkStep)

NoDuplicates(s) == \A i \in 1..Len(s), j \in 1..Len(s) : s[i] = s[j] => i = j

\* C1: for every commit graph over Commits (cycles, self-parents and repeated
\* parents included) and every start commit, the commits printed by one Log
\* invocation are pairwise distinct, and a running invocation always comes to
\* an end (it returns nil or an error, or printCommit panics).
C1_LogPrintsOnceAndTerminates ==
    /\ [](NoDuplicates(out))
    /\ [](logState = "running" => <>(logState # "running"))

\* A walk that returned nil on a two-commit cycle, having printed both.
C1_Witness ==
    /\ logState = "nil"
    /\ \E a \in Commits, b \in Commits :
          /\ a # b
          /\ parents[a] = <<b>>
          /\ parents[b] = <<a>>
          /\ out = <<a, b>>

(***************************************************************************)
(* The order of the log walk                                               *)
(***************************************************************************)
\* Commits of a history, numbered from the newest to the oldest.
HistoryCommits == 1..(NumCommits + 2)

\* The parent lists a commit of a well-formed history may store: up to two
\* commits older than itself.
OlderLists(c) ==
    LET older == {d \in HistoryCommits : d > c}
    IN {<<>>} \cup {<<a>> : a \in older} \cup {<<a, b>> : a \in older, b \in older}

\* The parent maps of the commits 1..n of a well-formed history.
RECURSIVE Histories(_)
Histories(n) ==
    IF n = 0 THEN {<<>>}
    ELSE {Append(g, l) : g \in Histories(n - 1), l \in OlderLists(n)}

\* Log on a well-formed history of NumCommits + 2 commits, or on any graph
\* of NumCommits commits (backward and repeated parent pointers included).
OrderInit ==
    /\ parents \in Histories(NumCommits + 2) \cup [Commits -> ParentLists]
    /\ LogStart
    /\ RepoIdle
    /\ DiffIdle
    /\ CoIdle
    /\ StartIdle

SpecLogOrder == OrderInit /\ [][LogNext]_vars

Range(s) == {s[i] : i \in 1..Len(s)}

ParentSet(c) == Range(parents[c])

\* The commits reachable from the commits of S through parent links.
RECURSIVE Closure(_)
Closure(S) ==
    LET T == S \cup UNION {ParentSet(c) : c \in S}
    IN IF T = S THEN S ELSE Closure(T)

Reachable(c) == Closure({c})

\* s is the beginning of a depth-first pre-order from c: c comes first, and
\* every later commit is the first parent, in stored order, not yet in s of
\* the most recent commit of s that still has such a parent.
PreOrderFrom(s, c) ==
    /\ s[1] = c
    /\ \A k \in 2..Len(s) :
          LET before == {s[i] : i \in 1..(k - 1)}
              open == {j \in 1..(k - 1) : ~(ParentSet(s[j]) \subseteq before)}
          IN /\ open # {}
             /\ LET j == CHOOSE x \in open : \A y \in open : y <= x
                    ps == parents[s[j]]
                    m == CHOOSE x \in 1..Len(ps) :
                             /\ ps[x] \notin before
                             /\ \A y \in 1..(x - 1) : ps[y] \in before
                IN s[k] = ps[m]

\* What one Log invocation that came to its end without an error printed.
WholeWalk ==
    /\ out # <<>>
    /\ Range(out) = Reachable(cmt)
    /\ NoDuplicates(out)

EmptyIndex == [p \in Paths |-> Absent]

\* The commit HEAD resolves to: through the branch when HEAD is symbolic.
HeadCommit == IF HEAD.kind = "sym" THEN refs[HEAD.ref] ELSE HEAD.sha

HeadTree == tree[HeadCommit]

HeadValues ==
    {[kind |-> "sym", ref |-> b] : b \in Branches}
        \cup {[kind |-> "sha", sha |-> c] : c \in RepoCommits}

(***************************************************************************)
(* The diff engine: diff-index and diff-files                              *)
(***************************************************************************)
Status(src, dst) ==
    IF src = Absent THEN "Added" ELSE IF dst = Absent THEN "Deleted" ELSE "Modified"

HashDiff(p, src, dst) == [path |-> p, src |-> src, dst |-> dst, status |-> Status(src, dst)]

\* No path argument selects every path.
Selected(files) == IF files = {} THEN Paths ELSE files

\* diff-index --cached: the tree against the index handed in.
DiffIndex(idx, t, files) ==
    {HashDiff(p, t[p], idx[p]) : p \in {q \in Selected(files) : t[q] # idx[q]}}

\* diff-files: the index against the working tree, over the tracked paths.
DiffFiles(files) ==
    {HashDiff(p, index[p], workdir[p]) :
        p \in {q \in Selected(files) : index[q] # Absent /\ workdir[q] # index[q]}}

(***************************************************************************)
(* git.Diff and cmd.Diff                                                   *)
(***************************************************************************)
\* The step of one invocation that fails, if any.  A failed
\* c.GitDir.ReadIndex has its error discarded by git.Diff, and DiffIndex is
\* handed the value returned with it: DiffIndex treats it as an index
\* without entries, or dereferences it and panics, or rejects it with an
\* error of its own.
DiffFaults ==
    {"none", "parseCommonDiffFlags", "GetHeadCommit", "ReadIndex/empty",
     "ReadIndex/panic", "ReadIndex/err", "backend", "printDiffs"}

IndexFaults == {"ReadIndex/empty", "ReadIndex/panic", "ReadIndex/err"}

BothFlags(staged, cached) == staged /\ cached

\* cmd.Diff: if staged || cached { options.Staged = true }
StagedOption(staged, cached) == staged \/ cached

GitDiffFilesOnly(isStaged, files, fault) ==
    IF fault = "backend"
      THEN [ret |-> "err", diffs |-> {}, raised |-> {"DiffFiles"}]
      ELSE [ret |-> "nil", diffs |-> DiffFiles(files), raised |-> {}]

\* git.Diff: the value returned, and the steps that raised an error.
GitDiff(isStaged, files, fault) ==
    IF isStaged
      THEN IF fault = "GetHeadCommit"
             THEN [ret |-> "err", diffs |-> {}, raised |-> {"GetHeadCommit"}]
             ELSE LET idx == IF fault \in IndexFaults THEN EmptyIndex ELSE index
                      r == IF fault \in IndexFaults THEN {"ReadIndex"} ELSE {}
                  IN IF fault = "ReadIndex/panic"
                       THEN [ret |-> "panic", diffs |-> {}, raised |-> r]
                       ELSE IF fault = "ReadIndex/err" \/ fault = "backend"
                              THEN [ret |-> "err", diffs |-> {},
                                    raised |-> r \cup {"DiffIndex"}]
                              ELSE [ret |-> "nil", diffs |-> DiffIndex(idx, HeadTree, files),
                                    raised |-> r]
      ELSE IF fault = "backend"
             THEN [ret |-> "err", diffs |-> {}, raised |-> {"DiffFiles"}]
             ELSE [ret |-> "nil", diffs |-> DiffFiles(files), raised |-> {}]

\* cmd.Diff, run once by the process: parse the flags (the error of
\* parseCommonDiffFlags is overwritten by the next assignment to err, unread),
\* call git.Diff, return its error or print the diffs.
CmdDiff(staged, cached, files, fault) ==
    LET r == GitDiff(StagedOption(staged, cached), files, fault)
        parsed == IF fault = "parseCommonDiffFlags" THEN {"parseCommonDiffFlags"} ELSE {}
        printFails == r.ret = "nil" /\ fault = "printDiffs"
    IN /\ diffState = "idle"
       /\ diffArgs' = [staged |-> staged, cached |-> cached, files |-> files]
       /\ diffOut' = IF r.ret = "nil" /\ ~printFails THEN r.diffs ELSE {}
       /\ diffState' = IF printFails THEN "err" ELSE r.ret
       /\ diffRaised' = parsed \cup r.raised
                          \cup (IF printFails THEN {"printDiffs"} ELSE {})
       /\ UNCHANGED <<logVars, repoVars, coVars, startVars>>

DiffInit ==
    /\ \E t \in Trees : tree = [c \in RepoCommits |-> t]
    /\ refs = [b \in Branches |-> "c1"]
    /\ HEAD = [kind |-> "sym", ref |-> "master"]
    /\ index \in Trees
    /\ workdir \in WorkTrees
    /\ DiffIdle
    /\ LogIdle
    /\ CoIdle
    /\ StartIdle

DiffCall ==
    /\ diffState = "idle"
    /\ \E staged \in BOOLEAN, cached \in BOOLEAN, files \in SUBSET Paths,
          fault \in DiffFaults :
           CmdDiff(staged, cached, files, fault)

DiffNext == DiffCall

SpecDiff == DiffInit /\ [][DiffNext]_vars

ReportedPaths == {d.path : d \in diffOut}

\* C5: a diff that ran without a failing step reports the index against the
\* HEAD tree (source side the tree, destination side the index) when --staged
\* or --cached or both were given, and the working tree against the index
\* (over the tracked paths) when neither was given.
C5_DiffSelectsComparison ==
    (diffState = "nil" /\ diffRaised = {}) =>
        LET sel == Selected(diffArgs.files)
        IN IF diffArgs.staged \/ diffArgs.cached
             THEN /\ ReportedPaths = {p \in sel : HeadTree[p] # index[p]}
                  /\ \A d \in diffOut :
                        d.src = HeadTree[d.path] /\ d.dst = index[d.path]
             ELSE /\ ReportedPaths =
                        {p \in sel : index[p] # Absent /\ workdir[p] # index[p]}
                  /\ \A d \in diffOut :
                        d.src = index[d.path] /\ d.dst = workdir[d.path]

\* --cached alone on a repository where the staged and the unstaged
\* comparison differ: a staged change on a path whose file matches the index.
C5_Witness ==
    /\ diffState = "nil"
    /\ diffRaised = {}
    /\ diffArgs.cached
    /\ ~diffArgs.staged
    /\ \E p \in Paths :
          /\ HeadTree[p] # index[p]
          /\ workdir[p] = index[p]
          /\ p \in ReportedPaths

\* C6: diff --staged without path arguments, on an empty index and a HEAD
\* tree that holds at least one path, reports exactly the paths of the HEAD
\* tree, each with status Deleted.
C6_StagedEmptyIndexAllDeleted ==
    ( /\ diffState = "nil"
      /\ diffRaised = {}
      /\ diffArgs.staged
      /\ diffArgs.files = {}
      /\ index = EmptyIndex
      /\ HeadTree # EmptyIndex )
        => /\ ReportedPaths = {p \in Paths : HeadTree[p] # Absent}
           /\ \A d \in diffOut : d.status = "Deleted"

\* diff --staged on an empty index with both paths in the HEAD tree.
C6_Witness ==
    /\ diffState = "nil"
    /\ diffRaised = {}
    /\ diffArgs.staged
    /\ diffArgs.files = {}
    /\ index = EmptyIndex
    /\ \A p \in Paths : HeadTree[p] # Absent
    /\ Cardinality(diffOut) = Cardinality(Paths)

\* C7: whenever a step of the command raised an error, the command returns
\* an error.
C7_EveryErrorReturned == diffRaised # {} => diffState = "err"

(***************************************************************************)
(* read-tree, as git.CheckoutCommit and git.CheckoutFiles use it           *)
(***************************************************************************)
\* The tree walker on O (the tree of the original HEAD) and A (the target):
\* the new index is A.  With update and merge it writes the paths on which A
\* differs from O, and refuses to overwrite a file that differs from both;
\* with reset it writes every tracked path unconditionally.
ReadTree(o, O, A, idx, wd) ==
    LET written == {p \in Paths : A[p] # O[p]}
        dirty == {p \in written : wd[p] # Absent /\ wd[p] # O[p] /\ wd[p] # A[p]}
        tracked == {p \in Paths : O[p] # Absent \/ idx[p] # Absent \/ A[p] # Absent}
    IN IF o.Update /\ o.Merge /\ ~o.Reset /\ dirty # {}
         THEN [err |-> "WorkdirDirty", index |-> idx, workdir |-> wd]
         ELSE [err |-> "nil",
               index |-> A,
               workdir |->
                   IF ~o.Update THEN wd
                   ELSE IF o.Reset
                     THEN [p \in Paths |-> IF p \in tracked THEN A[p] ELSE wd[p]]
                     ELSE [p \in Paths |-> IF p \in written THEN A[p] ELSE wd[p]]]

(***************************************************************************)
(* git.Checkout and git.CheckoutCommit                                     *)
(***************************************************************************)
\* What the user may name: a branch, a commit, or something that resolves
\* to neither.
Things == Branches \cup RepoCommits \cup {"bad"}

\* -b/-B <new_branch>: none, the name of an existing branch, a fresh name.
NewBranchNames == {"", "master", "feature"}

\* refspecfile.Exists()
BranchExists(name) == name \in Branches

\* commit.CommitID(c)
CommitOf(thing) == IF thing \in Branches THEN refs[thing] ELSE thing

AlwaysReset(force) == [Update |-> TRUE, Merge |-> FALSE, Reset |-> TRUE]

NeverReset(force) == [Update |-> TRUE, Merge |-> TRUE, Reset |-> FALSE]

\* readtreeopts := ReadTreeOptions{Update: true, Merge: true};
\* if opts.Force { Merge = false; Reset = true }
ReadTreeOptions(force) == [Update |-> TRUE, Merge |-> ~force, Reset |-> force]

BranchEvenIfDetach(thing, detach) == thing \in Branches

\* if b, ok := commit.(Branch); ok && !opts.Detach
IsBranchCheckout(thing, detach) == thing \in Branches /\ ~detach

NoExpectedValue(p) == "any"

\* UpdateRefOptions{NoDeref: true, OldValue: head}
OldValue(p) == head[p]

\* The command of process p returns value; errs are the steps that raised.
Return(p, value, errs) ==
    /\ pc' = [pc EXCEPT ![p] = "done"]
    /\ ret' = [ret EXCEPT ![p] = value]
    /\ raised' = [raised EXCEPT ![p] = @ \cup errs]

\* Checkout without paths and without -p: resolve the commit-ish, then
\* CheckoutCommit up to the tree read: the existing-branch test of -b, the
\* read of the original HEAD, the target's commit id.
CheckoutCommit(p, thing, force, detach, newBranch, forceBranch, fault) ==
    LET failure ==
            IF thing = "bad" THEN "RevParseCommitish"
            ELSE IF newBranch # "" /\ BranchExists(newBranch) /\ ~forceBranch
              THEN "BranchExists"
            ELSE IF fault \in {"SymbolicRefGet", "CommitID"} THEN fault
            ELSE "none"
    IN /\ pc[p] = "idle"
       /\ opts' = [opts EXCEPT ![p] = [thing |-> thing, Force |-> force,
                                       Detach |-> detach, Patch |-> FALSE,
                                       files |-> {}]]
       /\ IF failure # "none"
            THEN /\ Return(p, "err", {failure})
                 /\ UNCHANGED <<head, cid>>
            ELSE /\ head' = [head EXCEPT ![p] = HeadCommit]
                 /\ cid' = [cid EXCEPT ![p] = CommitOf(thing)]
                 /\ pc' = [pc EXCEPT ![p] = "cc_readtree"]
                 /\ UNCHANGED <<ret, raised>>
       /\ UNCHANGED <<hunks, reply, tempFile, applied, lock>>
       /\ UNCHANGED <<logVars, repoVars, diffVars, startVars>>

\* CheckoutCommit line 267-274: the tree read, which updates the index and
\* the working tree, or fails and leaves both.
CheckoutReadTree(p, fault) ==
    LET r == ReadTree(ReadTreeOptions(opts[p].Force), HeadTree, tree[cid[p]],
                      index, workdir)
    IN /\ pc[p] = "cc_readtree"
       /\ IF fault = "ReadTree"
            THEN /\ Return(p, "IoError", {"ReadTree"})
                 /\ UNCHANGED <<index, workdir>>
            ELSE IF r.err # "nil"
              THEN /\ Return(p, r.err, {"ReadTree"})
                   /\ UNCHANGED <<index, workdir>>
              ELSE /\ index' = r.index
                   /\ workdir' = r.workdir
                   /\ pc' = [pc EXCEPT ![p] = "cc_update"]
                   /\ UNCHANGED <<ret, raised>>
       /\ UNCHANGED <<opts, head, cid, hunks, reply, tempFile, applied, lock>>
       /\ UNCHANGED <<logVars, tree, refs, HEAD, diffVars, startVars>>

\* CheckoutCommit line 287-297: a branch that is not detached makes HEAD a
\* symbolic reference to it; anything else starts UpdateRef on HEAD, which
\* takes HEAD.lock or fails at once when another writer holds it.
CheckoutUpdateHead(p, fault) ==
    /\ pc[p] = "cc_update"
    /\ IF lock # "free"
         THEN /\ Return(p, "LockTimeout", {"LockTimeout"})
              /\ UNCHANGED <<HEAD, lock>>
         ELSE IF IsBranchCheckout(opts[p].thing, opts[p].Detach)
           THEN IF fault = "SymbolicRefUpdate"
                  THEN /\ Return(p, "IoError", {"SymbolicRefUpdate"})
                       /\ UNCHANGED <<HEAD, lock>>
                  ELSE /\ HEAD' = [kind |-> "sym", ref |-> opts[p].thing]
                       /\ Return(p, "nil", {})
                       /\ UNCHANGED lock
           ELSE /\ lock' = p
                /\ pc' = [pc EXCEPT ![p] = "ref_locked"]
                /\ UNCHANGED <<HEAD, ret, raised>>
    /\ UNCHANGED <<opts, head, cid, hunks, reply, tempFile, applied>>
    /\ UNCHANGED <<logVars, tree, refs, index, workdir, diffVars, startVars>>

\* UpdateRef under HEAD.lock: compare the actual value with the expected old
\* one, then rename the lock file over HEAD (NoDeref: HEAD itself is written).
UpdateRef(p) ==
    /\ pc[p] = "ref_locked"
    /\ lock' = "free"
    /\ IF OldValue(p) # "any" /\ HeadCommit # OldValue(p)
         THEN /\ Return(p, "RefConflict", {"UpdateRef"})
              /\ UNCHANGED HEAD
         ELSE /\ HEAD' = [kind |-> "sha", sha |-> cid[p]]
              /\ Return(p, "nil", {})
    /\ UNCHANGED <<opts, head, cid, hunks, reply, tempFile, applied>>
    /\ UNCHANGED <<logVars, tree, refs, index, workdir, diffVars, startVars>>

\* The step of a checkout that fails on its own (an I/O error, a missing or
\* corrupt object), if any.
CheckoutFaults == {"none", "SymbolicRefGet", "CommitID"}

CheckoutCommitCall ==
    \E p \in Running :
        /\ pc[p] = "idle"
        /\ \E thing \in Things, force \in BOOLEAN, detach \in BOOLEAN,
              newBranch \in NewBranchNames, forceBranch \in BOOLEAN,
              fault \in CheckoutFaults :
               CheckoutCommit(p, thing, force, detach, newBranch, forceBranch, fault)

CheckoutReadTreeStep ==
    \E p \in Running :
        /\ pc[p] = "cc_readtree"
        /\ \E fault \in {"none", "ReadTree"} : CheckoutReadTree(p, fault)

CheckoutUpdateHeadStep ==
    \E p \in Running :
        /\ pc[p] = "cc_update"
        /\ \E fault \in {"none", "SymbolicRefUpdate"} : CheckoutUpdateHead(p, fault)

UpdateRefStep == \E p \in Running : UpdateRef(p)

(***************************************************************************)
(* git.Checkout with -p, and git.CheckoutFiles                             *)
(***************************************************************************)
KeepAllHunks(split, filtered) == split

\* hunks, err = filterHunks("discard this hunk from the work tree", hunks)
FilteredHunks(split, filtered) == filtered

AbortIsContinue(kind) == IF kind = "err" THEN "return err" ELSE "continue"

\* if err == userAborted { return nil } else if err != nil { return err }
AfterFilter(kind) ==
    IF kind = "userAborted" THEN "return nil"
    ELSE IF kind = "err" THEN "return err"
    ELSE "continue"

\* Checkout with opts.Patch, up to the call of filterHunks: the diff of the
\* working tree against the index, the patch text, its hunks (one hunk per
\* changed path).  The thing to check out is not looked at.
CheckoutPatch(p, files, fault) ==
    /\ pc[p] = "idle"
    /\ opts' = [opts EXCEPT ![p] = [thing |-> "HEAD", Force |-> FALSE,
                                    Detach |-> FALSE, Patch |-> TRUE,
                                    files |-> files]]
    /\ IF fault # "none"
         THEN /\ Return(p, "err", {fault})
              /\ UNCHANGED hunks
         ELSE /\ hunks' = [hunks EXCEPT ![p] = {d.path : d \in DiffFiles(files)}]
              /\ pc' = [pc EXCEPT ![p] = "patch_filter"]
              /\ UNCHANGED <<ret, raised>>
    /\ UNCHANGED <<head, cid, reply, tempFile, applied, lock>>
    /\ UNCHANGED <<logVars, repoVars, diffVars, startVars>>

\* The answer of the hunk-selection collaborator and what Checkout does
\* with it (line 205-210).
FilterHunks(p, kind, selected) ==
    /\ pc[p] = "patch_filter"
    /\ reply' = [reply EXCEPT ![p] =
                    [kind |-> kind,
                     hunks |-> IF kind = "selected" THEN selected ELSE {}]]
    /\ IF AfterFilter(kind) = "return nil"
         THEN /\ Return(p, "nil", {})
              /\ UNCHANGED hunks
         ELSE IF AfterFilter(kind) = "return err"
           THEN /\ Return(p, "err", {"filterHunks"})
                /\ UNCHANGED hunks
           ELSE /\ hunks' = [hunks EXCEPT ![p] =
                                IF kind = "selected"
                                  THEN FilteredHunks(hunks[p], selected)
                                  ELSE hunks[p]]
                /\ pc' = [pc EXCEPT ![p] = "patch_temp"]
                /\ UNCHANGED <<ret, raised>>
    /\ UNCHANGED <<opts, head, cid, tempFile, applied, lock>>
    /\ UNCHANGED <<logVars, repoVars, diffVars, startVars>>

\* ioutil.TempFile and recombinePatch (line 212-217).  What recombinePatch
\* returns is not looked at: when it fails, some part of the patch is in
\* the file and Checkout goes on.
PatchTempFile(p, fault, written) ==
    /\ pc[p] = "patch_temp"
    /\ IF fault = "TempFile"
         THEN /\ Return(p, "IoError", {"TempFile"})
              /\ UNCHANGED tempFile
         ELSE /\ pc' = [pc EXCEPT ![p] = "patch_apply"]
              /\ ret' = ret
              /\ IF fault = "recombinePatch"
                   THEN /\ raised' = [raised EXCEPT ![p] = @ \cup {"recombinePatch"}]
                        /\ tempFile' = [tempFile EXCEPT ![p] =
                                           [state |-> "exists", hunks |-> written]]
                   ELSE /\ raised' = raised
                        /\ tempFile' = [tempFile EXCEPT ![p] =
                                           [state |-> "exists", hunks |-> hunks[p]]]
    /\ UNCHANGED <<opts, head, cid, hunks, reply, applied, lock>>
    /\ UNCHANGED <<logVars, repoVars, diffVars, startVars>>

\* Apply with Reverse on the patch file, then the deferred os.Remove: every
\* hunk of the file puts the index's content back into the working tree.
PatchApply(p, fault) ==
    /\ pc[p] = "patch_apply"
    /\ applied' = [applied EXCEPT ![p] = TRUE]
    /\ tempFile' = [tempFile EXCEPT ![p] = [state |-> "removed", hunks |-> {}]]
    /\ IF fault = "Apply"
         THEN /\ Return(p, "PatchApplyFailed", {"Apply"})
              /\ UNCHANGED workdir
         ELSE /\ workdir' = [q \in Paths |->
                                IF q \in tempFile[p].hunks THEN index[q]
                                ELSE workdir[q]]
              /\ Return(p, "nil", {})
    /\ UNCHANGED <<opts, head, cid, hunks, reply, lock>>
    /\ UNCHANGED <<logVars, tree, refs, HEAD, index, diffVars, startVars>>

\* Checkout with paths and without -p: resolve the tree-ish, then
\* CheckoutFiles: read the tree into the index without touching the working
\* tree, then check the named paths out of the index, forced.
CheckoutFiles(p, thing, files, fault) ==
    LET idx == ReadTree([Update |-> FALSE, Merge |-> FALSE, Reset |-> FALSE],
                        HeadTree, tree[CommitOf(thing)], index, workdir).index
        missing == {q \in files : idx[q] = Absent}
    IN /\ pc[p] = "idle"
       /\ files # {}
       /\ opts' = [opts EXCEPT ![p] = [thing |-> thing, Force |-> FALSE,
                                       Detach |-> FALSE, Patch |-> FALSE,
                                       files |-> files]]
       /\ IF thing = "bad"
            THEN /\ Return(p, "err", {"RevParseTreeish"})
                 /\ UNCHANGED <<index, workdir>>
            ELSE IF fault = "ReadTree"
              THEN /\ Return(p, "IoError", {"ReadTree"})
                   /\ UNCHANGED <<index, workdir>>
              ELSE /\ index' = idx
                   /\ workdir' = [q \in Paths |->
                                     IF q \in files \ missing THEN idx[q] ELSE workdir[q]]
                   /\ IF missing # {}
                        THEN Return(p, "err", {"CheckoutIndexUncommited"})
                        ELSE Return(p, "nil", {})
       /\ UNCHANGED <<head, cid, hunks, reply, tempFile, applied, lock>>
       /\ UNCHANGED <<logVars, tree, refs, HEAD, diffVars, startVars>>

CheckoutPatchCall ==
    \E p \in Running :
        /\ pc[p] = "idle"
        /\ \E files \in SUBSET Paths,
              fault \in {"none", "DiffFiles", "GeneratePatch", "splitPatch"} :
               CheckoutPatch(p, files, fault)

FilterHunksStep ==
    \E p \in Running :
        /\ pc[p] = "patch_filter"
        /\ \E kind \in {"selected", "userAborted", "err"}, selected \in SUBSET hunks[p] :
               FilterHunks(p, kind, selected)

PatchTempFileStep ==
    \E p \in Running :
        /\ pc[p] = "patch_temp"
        /\ \E fault \in {"none", "TempFile", "recombinePatch"},
              written \in SUBSET hunks[p] :
               PatchTempFile(p, fault, written)

PatchApplyStep ==
    \E p \in Running :
        /\ pc[p] = "patch_apply"
        /\ \E fault \in {"none", "Apply"} : PatchApply(p, fault)

CheckoutFilesCall ==
    \E p \in Running :
        /\ pc[p] = "idle"
        /\ \E thing \in Things, files \in SUBSET Paths, fault \in {"none", "ReadTree"} :
               CheckoutFiles(p, thing, files, fault)

\* One checkout process on a repository whose index matches the HEAD tree
\* and whose working tree holds anything.
CheckoutInit ==
    /\ tree \in [RepoCommits -> Trees]
    /\ refs = [b \in Branches |-> IF b = "master" THEN "c1" ELSE "c2"]
    /\ HEAD \in {[kind |-> "sym", ref |-> "master"], [kind |-> "sha", sha |-> "c1"]}
    /\ index = tree["c1"]
    /\ workdir \in WorkTrees
    /\ CoStart({"p1"})
    /\ StartIdle
    /\ LogIdle
    /\ DiffIdle

CheckoutNext ==
    \/ CheckoutCommitCall
    \/ CheckoutReadTreeStep
    \/ CheckoutUpdateHeadStep
    \/ UpdateRefStep
    \/ CheckoutPatchCall
    \/ FilterHunksStep
    \/ PatchTempFileStep
    \/ PatchApplyStep
    \/ CheckoutFilesCall

SpecCheckout == CheckoutInit /\ [][CheckoutNext]_vars

(***************************************************************************)
(* Properties of git.Checkout, checked on SpecCheckout                     *)
(***************************************************************************)
\* The command of p is a checkout without paths and without -p that got as
\* far as CheckoutCommit's commit id.
CommitRun(p) == ~opts[p].Patch /\ opts[p].files = {} /\ cid[p] # "none"

\* The tree of the HEAD the commands started from, and the target tree of p.
StartCommit == IF HEAD0.kind = "sym" THEN refs[HEAD0.ref] ELSE HEAD0.sha

StartTree == tree[StartCommit]

TargetTree(p) == tree[cid[p]]

\* The tree read of p ran its walk (it did not stop on an I/O error).
TreeWalked(p) ==
    /\ CommitRun(p)
    /\ pc[p] # "cc_readtree"
    /\ ~(ret[p] = "IoError" /\ "ReadTree" \in raised[p])

\* The tree read of p returned without an error.
TreeRead(p) == CommitRun(p) /\ pc[p] # "cc_readtree" /\ "ReadTree" \notin raised[p]

\* The file at q was tracked at the start and its working-tree copy is a
\* local modification that matches neither the HEAD tree nor p's target.
LocallyModified(p, q) ==
    /\ StartTree[q] # Absent
    /\ workdir0[q] \notin {Absent, StartTree[q], TargetTree(p)[q]}

\* C2 as stated: a checkout of a branch without Force that meets a locally
\* modified file matching neither the HEAD tree nor the target tree fails
\* with WorkdirDirty and leaves the index and the working tree as they were.
C2_AnyDirtyFileFails ==
    \A p \in Running :
        ( /\ TreeWalked(p)
          /\ opts[p].thing \in Branches
          /\ ~opts[p].Force
          /\ \E q \in Paths : LocallyModified(p, q) )
        => /\ ret[p] = "WorkdirDirty"
           /\ index = index0
           /\ workdir = workdir0

\* C2, amended: a checkout of a branch without Force that meets a locally
\* modified file matching neither side, at a path on which the target tree
\* differs from the HEAD tree, fails with WorkdirDirty and leaves the index
\* and the working tree as they were.
C2_DirtyWrittenFileFails ==
    \A p \in Running :
        ( /\ TreeWalked(p)
          /\ opts[p].thing \in Branches
          /\ ~opts[p].Force
          /\ \E q \in Paths : /\ LocallyModified(p, q)
                              /\ TargetTree(p)[q] # StartTree[q] )
        => /\ ret[p] = "WorkdirDirty"
           /\ pc[p] = "done"
           /\ index = index0
           /\ workdir = workdir0
           /\ HEAD = HEAD0

\* A failed checkout of a branch with one dirty path and one clean path that
\* the checkout would have written.
C2_Witness ==
    \E p \in Running :
        /\ TreeWalked(p)
        /\ opts[p].thing \in Branches
        /\ ~opts[p].Force
        /\ ret[p] = "WorkdirDirty"
        /\ \E q, r \in Paths :
               /\ LocallyModified(p, q)
               /\ TargetTree(p)[q] # StartTree[q]
               /\ TargetTree(p)[r] # StartTree[r]
               /\ workdir0[r] = StartTree[r]
               /\ workdir[r] = workdir0[r]

\* C3: checkout -p whose collaborator returns an empty hunk list writes no
\* file of the repository and, when no step fails, returns success; the
\* temporary patch file it created is removed again.
C3_EmptySelectionWritesNothing ==
    \A p \in Running :
        (opts[p].Patch /\ reply[p].kind = "selected" /\ reply[p].hunks = {})
        => /\ workdir = workdir0
           /\ index = index0
           /\ HEAD = HEAD0
           /\ (pc[p] = "done" /\ raised[p] = {}) =>
                  /\ ret[p] = "nil"
                  /\ tempFile[p].state = "removed"

\* The collaborator was offered a hunk, selected none, and the command ran
\* to its end through Apply.
C3_Witness ==
    \E p \in Running :
        /\ opts[p].Patch
        /\ reply[p].kind = "selected"
        /\ reply[p].hunks = {}
        /\ \E q \in Paths : workdir0[q] # index0[q]
        /\ applied[p]
        /\ pc[p] = "done"
        /\ ret[p] = "nil"

\* C4: when the collaborator signals a user abort, Checkout has returned nil
\* and neither created the temporary patch file nor invoked Apply.
C4_UserAbortReturnsNil ==
    \A p \in Running :
        reply[p].kind = "userAborted"
        => /\ pc[p] = "done"
           /\ ret[p] = "nil"
           /\ raised[p] = {}
           /\ tempFile[p].state = "none"
           /\ ~applied[p]
           /\ workdir = workdir0

\* An abort with hunks on offer.
C4_Witness ==
    \E p \in Running :
        /\ reply[p].kind = "userAborted"
        /\ hunks[p] # {}
        /\ ret[p] = "nil"

\* C8: a checkout of a commit with Force never fails with WorkdirDirty, and
\* once its tree read has returned every path tracked at the start holds the
\* target tree's content, locally modified or not.
C8_ForceOverwrites ==
    \A p \in Running :
        (CommitRun(p) /\ opts[p].Force)
        => /\ ret[p] # "WorkdirDirty"
           /\ TreeRead(p) =>
                  /\ index = TargetTree(p)
                  /\ \A q \in Paths :
                         StartTree[q] # Absent => workdir[q] = TargetTree(p)[q]

\* A forced checkout that overwrote a local modification on a path where the
\* target differs from it.
C8_Witness ==
    \E p \in Running :
        /\ CommitRun(p)
        /\ opts[p].Force
        /\ ret[p] = "nil"
        /\ \E q \in Paths :
               /\ LocallyModified(p, q)
               /\ TargetTree(p)[q] # Absent
               /\ workdir[q] = TargetTree(p)[q]

\* The checkout of p went through CheckoutCommit and returned nil.
CommitDone(p) == CommitRun(p) /\ pc[p] = "done" /\ ret[p] = "nil"

\* C10: HEAD keeps its value until CheckoutCommit has returned nil, which it
\* does only after the tree read succeeded; then HEAD is a symbolic reference
\* to the branch when the target is a branch and Detach is not set, and a
\* direct reference to the commit otherwise (no branch is moved).
C10_HeadWrittenLast ==
    \A p \in Running :
        /\ refs = [b \in Branches |-> IF b = "master" THEN "c1" ELSE "c2"]
        /\ IF CommitDone(p)
             THEN /\ TreeRead(p)
                  /\ HEAD = IF opts[p].thing \in Branches /\ ~opts[p].Detach
                              THEN [kind |-> "sym", ref |-> opts[p].thing]
                              ELSE [kind |-> "sha", sha |-> cid[p]]
             ELSE HEAD = HEAD0

\* A branch checked out with Detach from a symbolic HEAD: HEAD is direct.
C10_Witness ==
    \E p \in Running :
        /\ CommitDone(p)
        /\ opts[p].thing \in Branches
        /\ opts[p].Detach
        /\ HEAD0.kind = "sym"
        /\ HEAD = [kind |-> "sha", sha |-> refs[opts[p].thing]]

(***************************************************************************)
(* Two checkouts contending for HEAD                                       *)
(***************************************************************************)
\* The user runs the same checkout again after it lost the comparison of
\* UpdateRef: CheckoutCommit reads HEAD anew (line 256) and goes on to the
\* tree read.
CheckoutAgain(p) ==
    /\ pc[p] = "done"
    /\ ret[p] = "RefConflict"
    /\ head' = [head EXCEPT ![p] = HeadCommit]
    /\ pc' = [pc EXCEPT ![p] = "cc_readtree"]
    /\ ret' = [ret EXCEPT ![p] = "none"]
    /\ UNCHANGED <<opts, cid, raised, hunks, reply, tempFile, applied, lock>>
    /\ UNCHANGED <<logVars, repoVars, diffVars, startVars>>

CheckoutAgainStep == \E p \in Running : CheckoutAgain(p)

\* Two checkout processes on a clean repository whose two commits differ in
\* one file.
RefInit ==
    /\ tree = [c \in RepoCommits |->
                  [q \in Paths |-> IF c = "c2" /\ q = "f2" THEN Absent ELSE NumBlobs]]
    /\ refs = [b \in Branches |-> IF b = "master" THEN "c1" ELSE "c2"]
    /\ HEAD \in {[kind |-> "sym", ref |-> "master"], [kind |-> "sha", sha |-> "c1"]}
    /\ index = tree["c1"]
    /\ workdir = tree["c1"]
    /\ CoStart(Procs)
    /\ StartIdle
    /\ LogIdle
    /\ DiffIdle

RefNext ==
    \/ CheckoutCommitCall
    \/ CheckoutReadTreeStep
    \/ CheckoutUpdateHeadStep
    \/ UpdateRefStep
    \/ CheckoutAgainStep

SpecRef == RefInit /\ [][RefNext]_vars

\* The step that ends UpdateRef: it fails with RefConflict and leaves HEAD
\* when HEAD's value differs from the expected old one, and writes the
\* commit into HEAD otherwise.
CompareAndRename ==
    \A p \in Running :
        (pc[p] = "ref_locked" /\ pc'[p] = "done")
        => IF HeadCommit # head[p]
             THEN ret'[p] = "RefConflict" /\ HEAD' = HEAD
             ELSE ret'[p] = "nil" /\ HEAD' = [kind |-> "sha", sha |-> cid[p]]

\* The checkout of p ended in the comparison of UpdateRef, with HEAD's value
\* at the start as its expected old value.
Contended(p) ==
    /\ CommitRun(p)
    /\ ~(opts[p].thing \in Branches /\ ~opts[p].Detach)
    /\ pc[p] = "done"
    /\ ret[p] \in {"nil", "RefConflict"}
    /\ head[p] = StartCommit

Winners == {p \in Running : ret[p] = "nil"}

\* What a checkout that returned nil wrote into HEAD.
WrittenBy(w) ==
    IF opts[w].thing \in Branches /\ ~opts[w].Detach
      THEN [kind |-> "sym", ref |-> opts[w].thing]
      ELSE [kind |-> "sha", sha |-> cid[w]]

\* A checkout that lost the comparison and runs again has read the value
\* the winner wrote.
RetrySeesWinner ==
    \A p \in Running :
        ("UpdateRef" \in raised[p] /\ pc[p] # "done")
        => /\ head[p] = HeadCommit
           /\ \E w \in Running \ {p} :
                  /\ pc[w] = "done"
                  /\ ret[w] = "nil"
                  /\ HEAD = WrittenBy(w)

\* C9 as stated: an update whose expected old value differs from HEAD's
\* fails; of two contending updates that carry the correct expected old
\* value exactly one succeeds; the other reads the first one's value when
\* it runs again.
C9_ExactlyOneOfTwoSucceeds ==
    /\ [][CompareAndRename]_vars
    /\ []((\A p \in Procs : Contended(p)) => Cardinality(Winners) = 1)
    /\ []RetrySeesWinner

\* C9, amended: an update whose expected old value differs from HEAD's
\* fails; of two contending updates that carry the correct expected old
\* value and write a value different from it exactly one succeeds (an update
\* that writes the expected old value back lets the other succeed as well),
\* and at least one always succeeds; the loser reads the winner's value when
\* it runs again.
C9_OneOfTwoChangingUpdatesSucceeds ==
    /\ [][CompareAndRename]_vars
    /\ []((\A p \in Procs : Contended(p)) =>
              /\ Winners # {}
              /\ (\A p \in Procs : cid[p] # StartCommit) => Cardinality(Winners) = 1)
    /\ []RetrySeesWinner

\* One update won with a new value, the other lost and, running again, has
\* read that value.
C9_Witness ==
    \E w, p \in Running :
        /\ w # p
        /\ ret[w] = "nil"
        /\ head[w] = StartCommit
        /\ cid[w] # StartCommit
        /\ HEAD = [kind |-> "sha", sha |-> cid[w]]
        /\ "UpdateRef" \in raised[p]
        /\ pc[p] = "cc_readtree"
        /\ head[p] = cid[w]

====
